---- MODULE Spec2Model ----
(***************************************************************************)
(* docker-discover (src/main.py): the poll loop that reads the /backends   *)
(* tree of etcd, builds the service topology, and regenerates the haproxy  *)
(* configuration and restarts haproxy when the topology differs from the   *)
(* one last applied.                                                       *)
(*                                                                         *)
(* A registry key "/backends/web/c1" is modelled by the sequence of its    *)
(* "/"-separated segments after the leading slash,                         *)
(* <<"backends", "web", "c1">>: key[1:].count("/") is Len(key) - 1 and     *)
(* key[1:].rsplit("/", 2) yields the last two segments and, before them,   *)
(* the rest of the path joined.                                            *)
(***************************************************************************)
EXTENDS Integers, Sequences, FiniteSets, TLC

\* ---------------------------------------------------------------- bounds

\* The largest number of entries one read of /backends returns.
MaxEntries == 3

\* ------------------------------------------------------- program constants

POLL_TIMEOUT == 5

\* Python's None: the port of a service whose "port" key was not read.
None == "<None>"

\* ------------------------------------------------------------ the registry

\* One (key, value) node of the registry, as client.read yields it.
Entry(k, v) == [key |-> k, value |-> v]

\* The nodes the registry may hold under /backends: two services with their
\* port keys and containers, a key one level short (/backends/web) and a key
\* one level deep (/backends/x/web/c1).
EntryUniverse ==
    { Entry(<<"backends", "web", "port">>, "80"),
      Entry(<<"backends", "web", "port">>, "81"),
      Entry(<<"backends", "web", "c1">>, "a"),
      Entry(<<"backends", "web", "c1">>, "b"),
      Entry(<<"backends", "web", "c2">>, "b"),
      Entry(<<"backends", "db", "port">>, "80"),
      Entry(<<"backends", "web">>, ""),
      Entry(<<"backends", "x", "web", "c1">>, "b") }

\* The keys of a registry are unique: a read never returns one key twice.
UniqueKeys(es) ==
    \A i, j \in 1..Len(es) : es[i].key = es[j].key => i = j

\* What backends.children may iterate over: the nodes in any order.
EntryLists ==
    { es \in UNION { [1..n -> EntryUniverse] : n \in 0..MaxEntries } :
        UniqueKeys(es) }

\* ------------------------------------------------------------ get_services

\* svcs stands for the dictionary that get_services calls services.
EmptySnapshot == [s \in {} |-> None]

\* services[service] of the defaultdict: the entry, created when missing.
DefaultEndpoints == [port |-> None, backends |-> <<>>]

Lookup(svcs, service) ==
    IF service \in DOMAIN svcs THEN svcs[service] ELSE DefaultEndpoints

Put(svcs, service, endpoints) ==
    [s \in DOMAIN svcs \cup {service} |->
        IF s = service THEN endpoints ELSE svcs[s]]

\* One pass of the loop body over the node i.
ProcessEntry(svcs, i) ==
    IF Len(i.key) - 1 < 2 THEN svcs
    ELSE LET service   == i.key[Len(i.key) - 1]
             container == i.key[Len(i.key)]
             endpoints == Lookup(svcs, service)
         IN  IF container = "port"
             THEN Put(svcs, service, [endpoints EXCEPT !.port = i.value])
             ELSE Put(svcs, service,
                      [endpoints EXCEPT !.backends =
                          Append(@, [name |-> container, addr |-> i.value])])

\* for i in backends.children: the dictionary after the loop has passed over the
\* first k nodes, for every k up to the last.
BuildLoop(svcs, children) ==
    LET after[k \in 0..Len(children)] ==
            IF k = 0 THEN svcs
            ELSE ProcessEntry(after[k - 1], children[k])
    IN  after[Len(children)]

\* The filter left out.
FilterNoPort_nothing(svcs) == svcs

\* The filter also drops the services with no backends.
FilterNoPort_or_no_backends(svcs) ==
    [s \in { t \in DOMAIN svcs :
                svcs[t].port # None /\ svcs[t].backends # <<>> } |-> svcs[s]]

\* filter out services with no "port" value in etcd
FilterNoPort(svcs) ==
    [s \in { t \in DOMAIN svcs : svcs[t].port # None } |-> svcs[s]]

get_services(children) == FilterNoPort(BuildLoop(EmptySnapshot, children))

\* services is not current_services: the identity of the two dictionaries,
\* and get_services returns a new one in every tick.
has_changed_identity(previous, current) == TRUE

\* current_services and services != current_services: nothing is compared
\* while nothing has been applied.
has_changed_once_applied(previous, current) ==
    previous # EmptySnapshot /\ current # previous

\* Only the names and the ports of the services are compared.
has_changed_ports_only(previous, current) ==
    \/ DOMAIN current # DOMAIN previous
    \/ \E s \in DOMAIN current : current[s].port # previous[s].port

\* `if services and services != current_services`: an empty snapshot is
\* never a change.
has_changed_unless_empty(previous, current) ==
    current # EmptySnapshot /\ current # previous

\* services != current_services
has_changed(previous, current) == current # previous

\* What one call of get_services leaves behind, for a list of nodes the read
\* returned: the snapshot handed to main, and beside it the names of the
\* services that the loop over the nodes left without a port.
PollOutcome(children) ==
    LET built == BuildLoop(EmptySnapshot, children)
    IN  [services |-> get_services(children),
         portless |-> { s \in DOMAIN built : built[s].port = None }]

PollOutcomes == { PollOutcome(children) : children \in EntryLists }

\* template.render(services=services): the text of the configuration, a
\* function of the snapshot alone.
Render(svcs) == [rendered |-> svcs]

NoFile == [absent |-> TRUE]

\* ------------------------------------------------------------------ state

VARIABLES
    pc,                \* where main() stands
    client,            \* main's client: None or the etcd client
    services,          \* main's services: the snapshot built this tick
    portless,          \* the services the nodes read this tick left portless
    current_services,  \* main's current_services: the applied snapshot
    config_file,       \* the content of HAPROXY_CONFIG
    error,             \* what ended the process, "none" while it runs
    gen_calls,         \* calls of generate_config in this tick
    restart_calls,     \* calls of restart_haproxy in this tick
    reload_result,     \* what restart_haproxy returned in this tick
    tick,              \* the tick this is: "none", "first" or "later"
    retry,             \* this tick follows a failed reload of the same snapshot
    exit_status,       \* the status the process ended with, None while it runs
    frozen,            \* the registry holds from now on what the last read got
    \* two consecutive calls of get_services and their comparison
    step,              \* "first", "second", "compare", "done"; "off" in main
    first_read,        \* the nodes the first read returned
    second_read,       \* the nodes the second read returned
    first_built,       \* get_services on the first read
    second_built,      \* get_services on the second read
    differ,            \* services != current_services between the two
    applied            \* current_services after the second tick's reload

mainVars == <<pc, client, services, portless, current_services, config_file,
              error, gen_calls, restart_calls, reload_result, tick, retry,
              exit_status, frozen>>

pollVars == <<step, first_read, second_read, first_built, second_built,
              differ, applied>>

vars == <<mainVars, pollVars>>

InitMain ==
    /\ client = None
    /\ services = EmptySnapshot
    /\ portless = {}
    /\ current_services = EmptySnapshot
    /\ config_file = NoFile
    /\ error = "none"
    /\ gen_calls = 0
    /\ restart_calls = 0
    /\ reload_result = "none"
    /\ tick = "none"
    /\ retry = FALSE
    /\ exit_status = None
    /\ frozen = FALSE

Init ==
    /\ pc = "startup"
    /\ InitMain
    /\ step = "off"
    /\ first_read = <<>>
    /\ second_read = <<>>
    /\ first_built = EmptySnapshot
    /\ second_built = EmptySnapshot
    /\ differ = FALSE
    /\ applied = EmptySnapshot

\* The two checks print their message and main goes on into the loop.
Startup_goes_on ==
    /\ pc = "startup"
    /\ \E haproxy_found \in BOOLEAN, etcd_host_set \in BOOLEAN :
          IF haproxy_found /\ etcd_host_set
          THEN pc' = "loop" /\ error' = "none" /\ exit_status' = None
          ELSE pc' = "loop" /\ error' = "startup" /\ exit_status' = None
    /\ UNCHANGED <<client, services, portless, current_services, config_file,
                   gen_calls, restart_calls, reload_result, tick, retry>>
    /\ UNCHANGED frozen
    /\ UNCHANGED pollVars

\* main, before the loop: get_haproxy_path() and get_etcd_addr() end the
\* process when haproxy is not on the PATH or ETCD_HOST is not set.
Startup ==
    /\ pc = "startup"
    /\ \E haproxy_found \in BOOLEAN, etcd_host_set \in BOOLEAN :
          IF haproxy_found /\ etcd_host_set
          THEN pc' = "loop" /\ error' = "none" /\ exit_status' = None
          ELSE pc' = "exited" /\ error' = "startup" /\ exit_status' = 1
    /\ UNCHANGED <<client, services, portless, current_services, config_file,
                   gen_calls, restart_calls, reload_result, tick, retry>>
    /\ UNCHANGED frozen
    /\ UNCHANGED pollVars

\* The head of one iteration of the loop: the client is created when there
\* is none, get_services reads /backends and builds the snapshot, and the
\* snapshot is compared with current_services. With no change the iteration
\* ends in time.sleep(POLL_TIMEOUT) and the loop starts over.
PollReturns ==
    /\ pc = "loop"
    /\ client' = "etcd.Client"
    /\ \E got \in PollOutcomes :
          /\ services' = got.services
          /\ portless' = got.portless
    /\ pc' = IF has_changed(current_services, services')
             THEN "generate_config" ELSE "loop"
    /\ gen_calls' = 0
    /\ restart_calls' = 0
    /\ reload_result' = "none"
    /\ tick' = IF tick = "none" THEN "first" ELSE "later"
    /\ retry' = (reload_result = "failed" /\ services' = services)
    /\ UNCHANGED <<current_services, config_file, error>>
    /\ UNCHANGED <<exit_status, frozen>>
    /\ UNCHANGED pollVars

\* client.read raises (etcd cannot be reached): nothing in get_services or
\* in main catches it, and the exception ends the process.
PollRaises ==
    /\ pc = "loop"
    /\ client' = "etcd.Client"
    /\ pc' = "exited"
    /\ error' = "read"
    /\ gen_calls' = 0
    /\ restart_calls' = 0
    /\ reload_result' = "none"
    /\ tick' = IF tick = "none" THEN "first" ELSE "later"
    /\ retry' = FALSE
    /\ UNCHANGED <<services, portless, current_services, config_file>>
    /\ exit_status' = 1
    /\ UNCHANGED frozen
    /\ UNCHANGED pollVars

\* generate_config(services) returns: the file holds the rendered snapshot.
GenerateConfigReturns ==
    /\ pc = "generate_config"
    /\ gen_calls' = gen_calls + 1
    /\ config_file' = Render(services)
    /\ pc' = "restart_haproxy"
    /\ UNCHANGED <<client, services, portless, current_services, error,
                   restart_calls, reload_result, tick, retry>>
    /\ UNCHANGED <<exit_status, frozen>>
    /\ UNCHANGED pollVars

\* generate_config(services) raises, and the exception ends the process:
\* in get_template or in open (the file is as it was), in render (open has
\* emptied the file) or in write (the file holds a part of the text).
GenerateConfigRaises ==
    /\ pc = "generate_config"
    /\ gen_calls' = gen_calls + 1
    /\ \E at \in {"get_template", "open", "render", "write"} :
          config_file' =
              CASE at \in {"get_template", "open"} -> config_file
                [] at = "render" -> [empty |-> TRUE]
                [] at = "write" -> [part_of |-> Render(services)]
    /\ pc' = "exited"
    /\ error' = "generate_config"
    /\ UNCHANGED <<client, services, portless, current_services,
                   restart_calls, reload_result, tick, retry>>
    /\ exit_status' = 1
    /\ UNCHANGED frozen
    /\ UNCHANGED pollVars

\* current_services = services whatever restart_haproxy() returned.
RestartHaproxyReturns_assigns_always ==
    /\ pc = "restart_haproxy"
    /\ restart_calls' = restart_calls + 1
    /\ \E status_is_0 \in BOOLEAN :
          reload_result' = IF status_is_0 THEN "ok" ELSE "failed"
    /\ current_services' = services
    /\ pc' = "loop"
    /\ UNCHANGED <<client, services, portless, config_file, error,
                   gen_calls, tick, retry>>
    /\ UNCHANGED <<exit_status, frozen>>
    /\ UNCHANGED pollVars

\* A failed restart ends the process, as a missing haproxy does.
RestartHaproxyReturns_exits_on_failure ==
    /\ pc = "restart_haproxy"
    /\ restart_calls' = restart_calls + 1
    /\ \E status_is_0 \in BOOLEAN :
          /\ reload_result' = IF status_is_0 THEN "ok" ELSE "failed"
          /\ current_services' =
                IF status_is_0 THEN services ELSE current_services
          /\ pc' = IF status_is_0 THEN "loop" ELSE "exited"
          /\ error' = IF status_is_0 THEN error ELSE "restart_haproxy"
          /\ exit_status' = IF status_is_0 THEN None ELSE 1
    /\ UNCHANGED <<client, services, portless, config_file,
                   gen_calls, tick, retry>>
    /\ UNCHANGED frozen
    /\ UNCHANGED pollVars

\* current_services.update(services): what was applied and is no longer
\* built stays in current_services.
RestartHaproxyReturns_updates ==
    /\ pc = "restart_haproxy"
    /\ restart_calls' = restart_calls + 1
    /\ \E status_is_0 \in BOOLEAN :
          /\ reload_result' = IF status_is_0 THEN "ok" ELSE "failed"
          /\ current_services' =
                IF status_is_0
                THEN [s \in DOMAIN current_services \cup DOMAIN services |->
                         IF s \in DOMAIN services
                         THEN services[s] ELSE current_services[s]]
                ELSE current_services
    /\ pc' = "loop"
    /\ UNCHANGED <<client, services, portless, config_file, error,
                   gen_calls, tick, retry>>
    /\ UNCHANGED <<exit_status, frozen>>
    /\ UNCHANGED pollVars

\* restart_haproxy() returns: True when the command's exit status is 0,
\* and then current_services = services. The iteration ends in
\* time.sleep(POLL_TIMEOUT) and the loop starts over.
RestartHaproxyReturns ==
    /\ pc = "restart_haproxy"
    /\ restart_calls' = restart_calls + 1
    /\ \E status_is_0 \in BOOLEAN :
          /\ reload_result' = IF status_is_0 THEN "ok" ELSE "failed"
          /\ current_services' =
                IF status_is_0 THEN services ELSE current_services
    /\ pc' = "loop"
    /\ UNCHANGED <<client, services, portless, config_file, error,
                   gen_calls, tick, retry>>
    /\ UNCHANGED <<exit_status, frozen>>
    /\ UNCHANGED pollVars

\* restart_haproxy() calls get_haproxy_path(), which ends the process when
\* haproxy is no longer on the PATH.
RestartHaproxyExits ==
    /\ pc = "restart_haproxy"
    /\ restart_calls' = restart_calls + 1
    /\ pc' = "exited"
    /\ error' = "haproxy_path"
    /\ UNCHANGED <<client, services, portless, current_services, config_file,
                   gen_calls, reload_result, tick, retry>>
    /\ exit_status' = 1
    /\ UNCHANGED frozen
    /\ UNCHANGED pollVars

\* call(cmd, shell=True) waits for the command with no limit of time: when
\* the command does not end, restart_haproxy() does not return and main
\* stays in the call.
RestartHaproxyHangs ==
    /\ pc = "restart_haproxy"
    /\ restart_calls' = restart_calls + 1
    /\ pc' = "call_blocked"
    /\ UNCHANGED <<client, services, portless, current_services, config_file,
                   error, gen_calls, reload_result, tick, retry>>
    /\ UNCHANGED <<exit_status, frozen>>
    /\ UNCHANGED pollVars

Next ==
    \/ Startup
    \/ PollReturns
    \/ PollRaises
    \/ GenerateConfigReturns
    \/ GenerateConfigRaises
    \/ RestartHaproxyReturns
    \/ RestartHaproxyExits
    \/ RestartHaproxyHangs

Spec == Init /\ [][Next]_vars

\* ------------------------------------- the loop on a registry that settles

\* The registry stops changing: from now on client.read returns what the
\* last read returned.
Freeze ==
    /\ pc = "loop"
    /\ tick # "none"
    /\ ~ frozen
    /\ frozen' = TRUE
    /\ UNCHANGED <<pc, client, services, portless, current_services,
                   config_file, error, gen_calls, restart_calls,
                   reload_result, tick, retry, exit_status>>
    /\ UNCHANGED pollVars

\* The read of a tick on the settled registry: it returns, with the nodes
\* of the read before.
PollReturnsSame ==
    /\ frozen
    /\ PollReturns
    /\ services' = services
    /\ portless' = portless

\* restart_haproxy() returns True.
ReloadSucceeds == RestartHaproxyReturns /\ reload_result' = "ok"

NextLive ==
    \/ Startup
    \/ (~ frozen /\ PollReturns)
    \/ (~ frozen /\ PollRaises)
    \/ PollReturnsSame
    \/ GenerateConfigReturns
    \/ GenerateConfigRaises
    \/ RestartHaproxyReturns
    \/ RestartHaproxyExits
    \/ RestartHaproxyHangs
    \/ Freeze

\* The process runs while it can (time.sleep returns, the calls that can
\* return do), and a reload that is tried again and again succeeds in the
\* end.
SpecLive ==
    /\ Init
    /\ [][NextLive]_vars
    /\ WF_vars(NextLive)
    /\ SF_vars(ReloadSucceeds)

\* ------------------------------------------- two calls of get_services

\* The nodes of es that a later read may return: any of them, in any order.
Rereads(es) ==
    { r \in EntryLists : \A k \in 1..Len(r) : \E j \in 1..Len(es) : r[k] = es[j] }

InitPolls ==
    /\ pc = "off"
    /\ InitMain
    /\ step = "first"
    /\ first_read \in EntryLists
    /\ second_read \in Rereads(first_read)
    /\ first_built = EmptySnapshot
    /\ second_built = EmptySnapshot
    /\ differ = FALSE
    /\ applied = EmptySnapshot

\* services = get_services(client) in one tick ...
BuildFirst ==
    /\ step = "first"
    /\ first_built' = get_services(first_read)
    /\ step' = "second"
    /\ UNCHANGED <<first_read, second_read, second_built, differ>>
    /\ UNCHANGED applied
    /\ UNCHANGED mainVars

\* get_services fills a dictionary that lives across the calls: the second
\* call builds on what the first left.
BuildSecond_carries_over ==
    /\ step = "second"
    /\ second_built' = FilterNoPort(BuildLoop(first_built, second_read))
    /\ step' = "compare"
    /\ UNCHANGED <<first_read, second_read, first_built, differ>>
    /\ UNCHANGED applied
    /\ UNCHANGED mainVars

\* ... and in the next tick
BuildSecond ==
    /\ step = "second"
    /\ second_built' = get_services(second_read)
    /\ step' = "compare"
    /\ UNCHANGED <<first_read, second_read, first_built, differ>>
    /\ UNCHANGED applied
    /\ UNCHANGED mainVars

\* if services != current_services, the first snapshot being the applied one
Compare ==
    /\ step = "compare"
    /\ differ' = has_changed(first_built, second_built)
    /\ step' = "done"
    /\ UNCHANGED <<first_read, second_read, first_built, second_built>>
    /\ UNCHANGED applied
    /\ UNCHANGED mainVars

\* The second tick's reload succeeds when there was a change to apply:
\* current_services = services. With no change current_services stays the
\* first snapshot.
Commit ==
    /\ step = "done"
    /\ applied' = IF differ THEN second_built ELSE first_built
    /\ step' = "committed"
    /\ UNCHANGED <<first_read, second_read, first_built, second_built,
                   differ>>
    /\ UNCHANGED mainVars

NextPolls ==
    \/ BuildFirst
    \/ BuildSecond
    \/ Compare
    \/ Commit

SpecPolls == InitPolls /\ [][NextPolls]_vars

\* ------------------------------------------------------------------ claims

Range(seq) == { seq[k] : k \in 1..Len(seq) }

\* The service and the identifier that lines 88-91 take from a node's key,
\* for the keys that pass the test of line 88.
IsParsed(e) == Len(e.key) >= 3
ServiceOf(e) == e.key[Len(e.key) - 1]
IdentOf(e) == e.key[Len(e.key)]

\* A key of the form /backends/<service>/<identifier>.
WellFormed(e) == Len(e.key) = 3 /\ e.key[1] = "backends"

WellFormedOnly(es) == SelectSeq(es, WellFormed)

\* C1: current_services is empty at the start and changes only in the step
\* in which restart_haproxy returns True, and then to the whole snapshot that
\* this tick built: never on a failed reload, never without a reload, never
\* to anything else.
C1_AppliedOnlyOnSuccess ==
    /\ current_services = EmptySnapshot
    /\ [][current_services' # current_services =>
             /\ pc = "restart_haproxy"
             /\ reload_result' = "ok"
             /\ current_services' = services]_vars

C1_Witness ==
    /\ pc = "loop"
    /\ reload_result = "ok"
    /\ current_services = services
    /\ current_services # EmptySnapshot

\* C2: a tick whose snapshot equals current_services is over in the one step
\* of the poll: generate_config and restart_haproxy are not called, and
\* current_services and the configuration file are as they were.
C2_NoChangeNoReload ==
    [][(pc = "loop" /\ error' # "read" /\ services' = current_services) =>
          /\ pc' = "loop"
          /\ gen_calls' = 0
          /\ restart_calls' = 0
          /\ current_services' = current_services
          /\ config_file' = config_file]_vars

C2_Witness ==
    /\ pc = "loop"
    /\ tick = "later"
    /\ services = current_services
    /\ services # EmptySnapshot
    /\ config_file = Render(services)
    /\ gen_calls = 0
    /\ restart_calls = 0

\* C3: when restart_haproxy returns False, current_services keeps its value
\* and the loop goes on to the next tick; and in a tick that follows a failed
\* reload and builds the same snapshot again, generate_config is called
\* again, and restart_haproxy is called again when generate_config returns.
C3_FailedReloadIsRetried ==
    [][/\ (pc = "restart_haproxy" /\ reload_result' = "failed") =>
             /\ current_services' = current_services
             /\ pc' = "loop"
             /\ error' = "none"
       /\ (pc = "loop" /\ reload_result = "failed" /\ error' # "read"
              /\ services' = services) =>
             (retry' /\ pc' = "generate_config")
       /\ retry' =>
             /\ (pc' = "generate_config" /\ gen_calls' = 0) \/ gen_calls' = 1
             /\ pc' = "restart_haproxy" => restart_calls' = 0
             /\ pc' = "loop" => restart_calls' = 1]_vars

C3_Witness ==
    /\ retry
    /\ pc = "loop"
    /\ gen_calls = 1
    /\ restart_calls = 1

\* C4: when client.read raises, generate_config and restart_haproxy are not
\* called in that tick, current_services is unchanged, and the loop goes on
\* to the next tick.
C4_ReadFailureIsSurvived ==
    [][(pc = "loop" /\ error' = "read") =>
          /\ gen_calls' = 0
          /\ restart_calls' = 0
          /\ current_services' = current_services
          /\ pc' = "loop"]_vars

C6_OrderInsensitive ==
    (/\ step = "done"
     /\ Range(second_read) = Range(first_read)
     /\ \A e \in Range(first_read) : WellFormed(e)) => ~differ

\* C7: a node whose key is not of the form /backends/<service>/<identifier>
\* contributes nothing: the snapshot is the one built from the other nodes.
C7_MalformedKeysIgnored ==
    step # "first" => first_built = get_services(WellFormedOnly(first_read))

\* C8: no snapshot passed to generate_config or stored in current_services
\* holds a service whose port is unset, and a service that the nodes read in
\* this tick left without a port is not in the tick's snapshot.
C8_NoPortlessService ==
    /\ \A s \in DOMAIN services : services[s].port # None
    /\ \A s \in DOMAIN current_services : current_services[s].port # None
    /\ \A s \in portless : s \notin DOMAIN services

C8_Witness ==
    /\ pc = "restart_haproxy"
    /\ portless # {}
    /\ services # EmptySnapshot
    /\ config_file = Render(services)

\* C9: a service for which a port node and no backend node was read is in
\* the snapshot, with the port read and no backends.
C9_PortOnlyServiceKept ==
    step # "first" =>
        \A e \in Range(first_read) :
            (/\ IsParsed(e)
             /\ IdentOf(e) = "port"
             /\ \A f \in Range(first_read) :
                    (IsParsed(f) /\ ServiceOf(f) = ServiceOf(e)) => f = e) =>
                /\ ServiceOf(e) \in DOMAIN first_built
                /\ first_built[ServiceOf(e)] =
                       [port |-> e.value, backends |-> <<>>]

C9_Witness ==
    /\ step = "done"
    /\ "db" \in DOMAIN first_built
    /\ first_built["db"] = [port |-> "80", backends |-> <<>>]
    /\ "web" \in DOMAIN first_built
    /\ first_built["web"].backends # <<>>

\* The differences between the applied snapshot p and the built snapshot c.
Names(t) == { b.name : b \in Range(t.backends) }
Addrs(t, n) == { b.addr : b \in { x \in Range(t.backends) : x.name = n } }
Common(p, c) == DOMAIN p \cap DOMAIN c

BackendAdded(p, c) == \E s \in Common(p, c) : Names(c[s]) \ Names(p[s]) # {}
BackendRemoved(p, c) == \E s \in Common(p, c) : Names(p[s]) \ Names(c[s]) # {}
AddressChanged(p, c) ==
    \E s \in Common(p, c) : \E n \in Names(p[s]) \cap Names(c[s]) :
        Addrs(p[s], n) # Addrs(c[s], n)
PortChanged(p, c) == \E s \in Common(p, c) : p[s].port # c[s].port
ServiceAdded(p, c) == DOMAIN c \ DOMAIN p # {}
ServiceRemoved(p, c) == DOMAIN p \ DOMAIN c # {}

\* The tick compared its snapshot and went on to generate_config.
RenderTriggered == pc = "generate_config" \/ gen_calls = 1

\* C10: when the snapshot built in a tick differs from current_services by
\* a backend added or removed, a backend's address or a service's port
\* changed, or a service added or removed, the comparison reports the change
\* and the tick goes on to generate_config.
C10_ChangesDetected ==
    (/\ tick # "none"
     /\ error # "read"
     /\ \/ BackendAdded(current_services, services)
        \/ BackendRemoved(current_services, services)
        \/ AddressChanged(current_services, services)
        \/ PortChanged(current_services, services)
        \/ ServiceAdded(current_services, services)
        \/ ServiceRemoved(current_services, services)) => RenderTriggered

C10_Witness ==
    /\ pc = "generate_config"
    /\ AddressChanged(current_services, services)
    /\ ~ BackendAdded(current_services, services)
    /\ ~ BackendRemoved(current_services, services)
    /\ ~ PortChanged(current_services, services)
    /\ DOMAIN current_services = DOMAIN services

\* C11: when generate_config raises, restart_haproxy is not called in that
\* tick, current_services is unchanged, and the loop goes on to the next
\* tick: the process does not end.
C11_RenderFailureIsSurvived ==
    [][(pc = "generate_config" /\ error' = "generate_config") =>
          /\ restart_calls' = 0
          /\ current_services' = current_services
          /\ pc' = "loop"
          /\ exit_status' = None]_vars

\* C12: a tick whose snapshot differs from current_services goes on to
\* generate_config; generate_config is called once and, when it returns,
\* restart_haproxy is called once, on the file rendered from this tick's
\* snapshot; neither is called a second time in the tick; and when
\* restart_haproxy returns True, current_services at the end of the tick is
\* the snapshot that this tick built.
C12_ChangedTickRendersAndReloadsOnce ==
    [][/\ (pc = "loop" /\ error' # "read" /\ services' # current_services) =>
             /\ pc' = "generate_config"
             /\ gen_calls' = 0
             /\ restart_calls' = 0
       /\ (pc = "generate_config" /\ error' # "generate_config") =>
             /\ pc' = "restart_haproxy"
             /\ gen_calls' = 1
             /\ restart_calls' = 0
             /\ config_file' = Render(services)
             /\ services' = services
       /\ (pc = "restart_haproxy" /\ pc' = "loop") =>
             /\ gen_calls' = 1
             /\ restart_calls' = 1
             /\ services' = services
             /\ reload_result' = "ok" => current_services' = services
       /\ gen_calls' <= 1
       /\ restart_calls' <= 1]_vars

C12_Witness ==
    /\ pc = "loop"
    /\ tick = "later"
    /\ gen_calls = 1
    /\ restart_calls = 1
    /\ reload_result = "ok"
    /\ config_file = Render(services)
    /\ current_services = services
    /\ DOMAIN services = {"db"}

\* C13: when haproxy is not found or ETCD_HOST is not set at startup, the
\* process ends with status 1 before the loop: no client is created, no tick
\* starts, generate_config and restart_haproxy are never called, and the
\* configuration file and current_services are untouched.
C13_StartupFailureEndsBeforeLoop ==
    error = "startup" =>
        /\ pc = "exited"
        /\ exit_status = 1
        /\ client = None
        /\ tick = "none"
        /\ gen_calls = 0
        /\ restart_calls = 0
        /\ reload_result = "none"
        /\ config_file = NoFile
        /\ current_services = EmptySnapshot

C13_Witness ==
    /\ error = "startup"
    /\ pc = "exited"
    /\ exit_status = 1
    /\ tick = "none"

\* C14: once the registry has settled on a snapshot that differs from
\* current_services, every tick goes on to generate_config, and in the end
\* current_services is that snapshot.
C14_EventuallyApplied ==
    /\ [][(frozen /\ pc = "loop" /\ services # current_services) =>
             pc' = "generate_config"]_vars
    /\ frozen ~> (current_services = services)

\* C15: once the loop is entered, a haproxy that is not found does not end
\* the process: the reload of that tick counts as failed, current_services
\* keeps its value and the loop goes on to the next tick.
C15_MissingHaproxyInLoopIsAFailedReload ==
    [][(pc = "restart_haproxy" /\ error' = "haproxy_path") =>
          /\ pc' = "loop"
          /\ exit_status' = None
          /\ reload_result' = "failed"
          /\ current_services' = current_services]_vars

\* C16: when generate_config raises after an earlier call has written the
\* configuration file, the file holds what it held before the call, the
\* whole text of the last write that succeeded: it is not empty and holds
\* no part of a text.
C16_FailedWriteKeepsLastFile ==
    [][(/\ pc = "generate_config"
        /\ config_file # NoFile
        /\ error' = "generate_config") =>
          /\ config_file' = config_file
          /\ config_file' # [empty |-> TRUE]
          /\ config_file' # [part_of |-> Render(services)]]_vars

\* C17: in every snapshot that get_services returns, the backends of one
\* service have pairwise distinct names.
C17_BackendNamesDistinct ==
    step # "first" =>
        \A s \in DOMAIN first_built :
            \A j, k \in 1..Len(first_built[s].backends) :
                first_built[s].backends[j].name =
                    first_built[s].backends[k].name => j = k

\* C18: a tick that builds the empty snapshot while current_services is not
\* empty goes on to generate_config; generate_config, when it returns, has
\* written the rendering of the empty snapshot; and when restart_haproxy
\* then returns True, current_services is empty.
C18_EmptySnapshotApplied ==
    [][/\ (/\ pc = "loop"
           /\ error' # "read"
           /\ services' = EmptySnapshot
           /\ current_services # EmptySnapshot) => pc' = "generate_config"
       /\ (/\ pc = "generate_config"
           /\ services = EmptySnapshot
           /\ error' # "generate_config") =>
             /\ config_file' = Render(EmptySnapshot)
             /\ pc' = "restart_haproxy"
       /\ (/\ pc = "restart_haproxy"
           /\ services = EmptySnapshot
           /\ reload_result' = "ok") =>
             current_services' = EmptySnapshot]_vars

C18_Witness ==
    /\ pc = "loop"
    /\ services = EmptySnapshot
    /\ gen_calls = 1
    /\ restart_calls = 1
    /\ reload_result = "ok"
    /\ config_file = Render(EmptySnapshot)
    /\ current_services = EmptySnapshot

\* The snapshot t holds nothing but what the nodes of es say: every service
\* of t has its port from a port node of es, and every backend of t has its
\* name and address from a backend node of es of that service.
Supported(t, es) ==
    \A s \in DOMAIN t :
        /\ \E e \in Range(es) :
              /\ IsParsed(e)
              /\ ServiceOf(e) = s
              /\ IdentOf(e) = "port"
              /\ e.value = t[s].port
        /\ \A b \in Range(t[s].backends) :
              \E e \in Range(es) :
                  /\ IsParsed(e)
                  /\ ServiceOf(e) = s
                  /\ IdentOf(e) # "port"
                  /\ IdentOf(e) = b.name
                  /\ e.value = b.addr

\* C19: the snapshot of the second tick holds nothing but what the nodes
\* read in the second tick say, whatever the first tick read and built; so
\* does current_services after the second tick's reload; and the snapshot
\* of the first tick is not altered by the second build.
C19_NoCarryOver ==
    [][/\ step' \in {"compare", "done", "committed"} =>
             /\ Supported(second_built', second_read')
             /\ Supported(first_built', first_read')
       /\ step' = "committed" => Supported(applied', second_read')
       /\ step # "first" => first_built' = first_built]_vars

C19_Witness ==
    /\ step = "committed"
    /\ differ
    /\ first_built # EmptySnapshot
    /\ applied # EmptySnapshot
    /\ \E s \in DOMAIN first_built : s \notin DOMAIN applied
    /\ \E s \in DOMAIN first_built \cap DOMAIN applied :
          Names(first_built[s]) \ Names(applied[s]) # {}

\* C20: a tick whose reload command does not end is ended all the same:
\* where main waits in the call there is a step that cuts the call off, so
\* that the tick completes and the loop goes on.
C20_HungReloadIsCutOff ==
    pc = "call_blocked" => ENABLED Next

====
